---- MODULE Spec2Model ----
(***************************************************************************)
(* Model of copy-table-mysql-to-postgres.js: the orchestrator copyTable    *)
(* and the streaming transfer loop copyTableDataStream.                    *)
(*                                                                         *)
(* The program is one async flow of control.  Every action below is the    *)
(* code that runs between two awaits: it is enabled when the awaited       *)
(* query (or timer) completes, takes the outcome of that query as its      *)
(* input, and runs up to the point where the next query is issued.         *)
(* The source and target tables are modelled by their row counts; the      *)
(* source may gain or lose rows while the program runs.                    *)
(* Console narration that feeds nothing back into the control flow         *)
(* (progress lines, memory sampling, durations) is not modelled.           *)
(***************************************************************************)
EXTENDS Integers, Sequences, FiniteSets, TLC

\* ------------------------------------------------------------------ bounds
MaxRows == 12
MaxBatches == 3
MaxSrcChanges == 1
MaxPriorRows == 1

\* --------------------------------------------------------------- constants
BaseDelayMs == 1000
NoValue == 0 - 1

BatchSizes == {2, 3, 5}
StreamLimits == {4, 10}
\* every configuration attempts a batch at least once (MAX_RETRIES is 3 as
\* shipped); with 0 the loop of line 231 is never entered, which WhileLoop
\* models, and no batch is ever attempted
RetryLimits == {1, 2, 3}
CheckpointIntervals == {5}

VARIABLES
    CONFIG,         \* [BATCH_SIZE, STREAM_LIMIT, MAX_RETRIES, CHECKPOINT_INTERVAL]
    srcRows,        \* rows currently in the MySQL table
    srcChanges,     \* number of concurrent changes made to the MySQL table
    tgtExists,      \* the PostgreSQL table exists
    tgtRows,        \* rows currently in the PostgreSQL table
    pc,             \* the await the program is suspended at
    queries,        \* state of the three analysis queries of Promise.all
    columns,        \* TRUE once DESCRIBE has returned the column list
    totalRows,      \* result of getTotalRowCount, NoValue before
    tableSize,      \* result of getTableSize, NoValue before
    offset, limit, rows, i, batchCount, retries, batchInserted, totalInserted,
    transfer,       \* "notcalled", "running", "returned", "raised"
    copiedRows,     \* value returned by copyTableDataStream, NoValue before
    postgresCount,  \* count read by step 4, NoValue before
    report,         \* [verification, outcome, failedAt]
    fetchLog,       \* page fetches issued: [offset, limit, n]
    batchLog,       \* batches sliced: [first, size, attempts, delays, result, bindable]
    checkpoints,    \* values of totalInserted logged as checkpoint
    batchesFailed,  \* number of "failed permanently, skipping" lines logged
    tgtStmts,       \* statements issued on the target so far
    sizeFailed      \* "Could not get table size estimate" was logged

\* the pure converters and createPostgreSQLTable, called on their own
VARIABLES
    unit,             \* the function under test and its position
    mysqlType,        \* argument of convertDataType
    pgType,           \* value returned by convertDataType
    defaultValue,     \* argument of convertDefaultValue
    convertedDefault, \* value returned by convertDefaultValue
    cols,             \* column list passed to createPostgreSQLTable
    createSQL,        \* CREATE TABLE statement built by createPostgreSQLTable
    table,            \* the PostgreSQL table: [exists, spec, rows]
    calls,            \* completed calls of createPostgreSQLTable
    firstTable,       \* the table as the first completed call left it
    progressArgs,     \* [totalInserted, totalRows, elapsed] at a progress line
    progressLine,     \* [speed, eta] printed by the progress line
    batch,            \* rows of the batch whose INSERT is prepared
    insertStmt        \* [columnNames, placeholders, values] of that INSERT

envVars  == <<CONFIG, srcRows, srcChanges, tgtExists, tgtRows>>
orchVars == <<pc, queries, columns, totalRows, tableSize, copiedRows,
              postgresCount, report>>
xferVars == <<offset, limit, rows, i, batchCount, retries, batchInserted,
              totalInserted, transfer>>
logVars  == <<fetchLog, batchLog, checkpoints, batchesFailed, tgtStmts>>
loopVars == <<progressArgs, progressLine, batch, insertStmt>>
unitVars == <<unit, mysqlType, pgType, defaultValue, convertedDefault, cols,
              createSQL, table, calls, firstTable, loopVars>>
vars     == <<envVars, orchVars, xferVars, logVars, sizeFailed, unitVars>>

Min(a, b) == IF a < b THEN a ELSE b
Max(a, b) == IF a > b THEN a ELSE b

Configs ==
    { c \in [BATCH_SIZE : BatchSizes, STREAM_LIMIT : StreamLimits,
             MAX_RETRIES : RetryLimits, CHECKPOINT_INTERVAL : CheckpointIntervals] :
        c.STREAM_LIMIT >= c.BATCH_SIZE }

\* mutant: every slice is taken to hold BATCH_SIZE rows
SliceLenFull(n, at, width) == width

\* rows.slice(i, i + BATCH_SIZE).length for a page of n rows
SliceLen(n, at, width) == Max(0, Min(n, at + width) - Min(n, at))

\* number of rows returned by SELECT * ... LIMIT lim OFFSET off
PageLen(src, off, lim) == Min(lim, Max(0, src - off))

\* mutant: the LIMIT is not clamped to the rows that remain of totalRows
PageLimitUnclamped(off) == CONFIG.STREAM_LIMIT

\* line 211: the LIMIT of the next page fetch
PageLimit(off) == Min(CONFIG.STREAM_LIMIT, totalRows - off)

\* mutant: the offset is not advanced
NextOffsetStuck(off, n) == off

\* mutant: the offset advances past one row that was not fetched
NextOffsetSkips(off, n) == off + n + 1

\* line 302: offset += rows.length
NextOffset(off, n) == off + n

\* mutant: the configured batch size is counted, not the length of the slice
CountedBatchSize(ins, size) == ins + CONFIG.BATCH_SIZE

\* line 257: totalInserted += batch.length
Counted(ins, size) == ins + size

\* line 231: while (retries < MAX_RETRIES && !batchInserted)
WhileCond(r, bi) == r < CONFIG.MAX_RETRIES /\ ~bi

\* mutant: off by one, the batch is given up one attempt early
GiveUpEarly(r) == r >= CONFIG.MAX_RETRIES - 1

\* line 291: if (retries >= MAX_RETRIES) ... break
GiveUp(r) == r >= CONFIG.MAX_RETRIES

\* mutant: the same delay is waited before every retry
DelayFixed(r) == BaseDelayMs

\* line 297: setTimeout(resolve, 1000 * retries)
Delay(r) == BaseDelayMs * r

\* lines 305-307: the checkpoint line after a page
Checkpoint(cps, ins) ==
    IF ins % CONFIG.CHECKPOINT_INTERVAL = 0 THEN Append(cps, ins) ELSE cps

\* lines 456-460: the count check of step 4
Verification(total, count) == IF total = count THEN "match" ELSE "mismatch"

\* mutant: the comparison of the classification is <= instead of ===
ClassifyAtMost(copied, total) == IF copied <= total THEN "SUCCESS" ELSE "PARTIAL"

\* lines 486-490: the classification that ends the final summary
Classify(copied, total) == IF copied = total THEN "SUCCESS" ELSE "PARTIAL"

\* number of batches the loop slices R rows into, page after page
RECURSIVE BatchesOf(_, _)
BatchesOf(R, c) ==
    IF R <= 0 THEN 0
    ELSE LET n == Min(c.STREAM_LIMIT, R)
         IN  ((n + c.BATCH_SIZE - 1) \div c.BATCH_SIZE) + BatchesOf(R - n, c)

NoReport == [verification |-> "none", outcome |-> "none", failedAt |-> "none"]

\* the converters and createPostgreSQLTable are not called on their own
UnitIdle ==
    /\ unit = [fn |-> "none", at |-> "none"]
    /\ mysqlType = <<>> /\ pgType = <<>>
    /\ defaultValue = [t |-> "notcalled"] /\ convertedDefault = [t |-> "notcalled"]
    /\ cols = <<>>
    /\ createSQL = [defs |-> <<>>, pk |-> <<>>]
    /\ table = [exists |-> FALSE, spec |-> [defs |-> <<>>, pk |-> <<>>], rows |-> 0]
    /\ calls = 0
    /\ firstTable = [exists |-> FALSE, spec |-> [defs |-> <<>>, pk |-> <<>>], rows |-> 0]
    /\ progressArgs = [t |-> "notcalled"] /\ progressLine = [t |-> "notcalled"]
    /\ batch = <<>>
    /\ insertStmt = [columnNames |-> <<>>, placeholders |-> <<>>, values |-> <<>>,
                     thrown |-> FALSE]

Init ==
    /\ CONFIG \in Configs
    /\ srcRows \in 0..MaxRows
    /\ BatchesOf(srcRows, CONFIG) <= MaxBatches
    /\ srcChanges = 0
    /\ tgtExists \in BOOLEAN
    /\ tgtRows \in 0..MaxPriorRows
    /\ (~tgtExists => tgtRows = 0)
    /\ pc = "start"
    /\ queries = [q \in {"structure", "count", "size"} |-> "idle"]
    /\ columns = FALSE
    /\ totalRows = NoValue
    /\ tableSize = NoValue
    /\ offset = 0 /\ limit = 0 /\ rows = 0 /\ i = 0
    /\ batchCount = 0 /\ retries = 0 /\ batchInserted = FALSE
    /\ totalInserted = 0
    /\ transfer = "notcalled"
    /\ copiedRows = NoValue
    /\ postgresCount = NoValue
    /\ report = NoReport
    /\ fetchLog = <<>>
    /\ batchLog = <<>>
    /\ checkpoints = <<>>
    /\ batchesFailed = 0
    /\ tgtStmts = <<>>
    /\ sizeFailed = FALSE
    /\ UnitIdle


\* ------------------------------------------------------------ environment
\* another client inserts a row into the MySQL table while the copy runs
SrcInsert ==
    /\ pc \notin {"start", "exit0", "exit1"}
    /\ srcChanges < MaxSrcChanges
    /\ srcRows' = srcRows + 1
    /\ srcChanges' = srcChanges + 1
    /\ UNCHANGED <<CONFIG, tgtExists, tgtRows, orchVars, xferVars, logVars>>
    /\ UNCHANGED <<sizeFailed, unitVars>>

\* another client deletes a row of the MySQL table while the copy runs
SrcDelete ==
    /\ pc \notin {"start", "exit0", "exit1"}
    /\ srcChanges < MaxSrcChanges
    /\ srcRows > 0
    /\ srcRows' = srcRows - 1
    /\ srcChanges' = srcChanges + 1
    /\ UNCHANGED <<CONFIG, tgtExists, tgtRows, orchVars, xferVars, logVars>>
    /\ UNCHANGED <<sizeFailed, unitVars>>

\* ----------------------------------------------------------- orchestrator
\* catch block of copyTable: report the failure and process.exit(1)
Fail(at) ==
    /\ pc' = "exit1"
    /\ report' = [report EXCEPT !.outcome = "FAILED", !.failedAt = at]

\* copyTable up to the await of Promise.all: the three queries are issued
StartCopy ==
    /\ pc = "start"
    /\ pc' = "analyze"
    /\ queries' = [q \in DOMAIN queries |-> "pending"]
    /\ UNCHANGED <<envVars, columns, totalRows, tableSize, copiedRows,
                   postgresCount, report, xferVars, logVars>>
    /\ UNCHANGED <<sizeFailed, unitVars>>

\* mutant: step 2 starts as soon as DESCRIBE has returned, the other two
\* queries are not awaited
AfterAnalysisNoWait(q) ==
    IF q["structure"] = "failed" THEN Fail("structure") /\ tgtStmts' = tgtStmts
    ELSE IF q["count"] = "failed" THEN Fail("count") /\ tgtStmts' = tgtStmts
    ELSE IF q["structure"] = "ok"
         THEN /\ pc' = "drop"
              /\ tgtStmts' = Append(tgtStmts, "DROP")
              /\ report' = report
         ELSE /\ pc' = "analyze"
              /\ UNCHANGED <<tgtStmts, report>>

\* mutant: getTotalRowCount swallows its error the way getTableSize does
AfterAnalysisSwallowsCount(q) ==
    IF q["structure"] = "failed" THEN Fail("structure") /\ tgtStmts' = tgtStmts
    ELSE IF \A n \in DOMAIN q : q[n] \in {"ok", "failed"}
         THEN /\ pc' = "drop"
              /\ tgtStmts' = Append(tgtStmts, "DROP")
              /\ report' = report
         ELSE /\ pc' = "analyze"
              /\ UNCHANGED <<tgtStmts, report>>

\* Promise.all settles: rejected by the first failure of DESCRIBE or COUNT,
\* fulfilled when the three values are there; step 2 then issues DROP TABLE
AfterAnalysis(q) ==
    IF q["structure"] = "failed" THEN Fail("structure") /\ tgtStmts' = tgtStmts
    ELSE IF q["count"] = "failed" THEN Fail("count") /\ tgtStmts' = tgtStmts
    ELSE IF \A n \in DOMAIN q : q[n] = "ok"
         THEN /\ pc' = "drop"
              /\ tgtStmts' = Append(tgtStmts, "DROP")
              /\ report' = report
         ELSE /\ pc' = "analyze"
              /\ UNCHANGED <<tgtStmts, report>>

\* getMySQLTableStructure: DESCRIBE returns the columns or throws
DescribeReturns ==
    /\ pc = "analyze"
    /\ queries["structure"] = "pending"
    /\ \E ok \in BOOLEAN :
         /\ queries' = [queries EXCEPT !["structure"] = IF ok THEN "ok" ELSE "failed"]
         /\ columns' = ok
    /\ AfterAnalysis(queries')
    /\ UNCHANGED <<envVars, totalRows, tableSize, copiedRows, postgresCount,
                   xferVars, fetchLog, batchLog, checkpoints, batchesFailed>>
    /\ UNCHANGED <<sizeFailed, unitVars>>

\* getTotalRowCount: SELECT COUNT(*) returns the current row count or throws
CountReturns ==
    /\ pc = "analyze"
    /\ queries["count"] = "pending"
    /\ \E ok \in BOOLEAN :
         /\ queries' = [queries EXCEPT !["count"] = IF ok THEN "ok" ELSE "failed"]
         /\ totalRows' = IF ok THEN srcRows ELSE totalRows
    /\ AfterAnalysis(queries')
    /\ UNCHANGED <<envVars, columns, tableSize, copiedRows, postgresCount,
                   xferVars, fetchLog, batchLog, checkpoints, batchesFailed>>
    /\ UNCHANGED <<sizeFailed, unitVars>>

\* mutant: getTableSize lets the error of its query propagate
SizeSettlesRethrows(res) == IF res = "throws" THEN "failed" ELSE "ok"

\* getTableSize catches the error of its query: its promise is always fulfilled
SizeSettles(res) == "ok"

\* the value of getTableSize: size_mb of the first row (1 stands for any
\* size), 0 when there is no row and 0 from the catch block
SizeValue(res) == IF res = "row" THEN 1 ELSE 0

\* getTableSize: the size in MB, or 0 when the row is missing or the query throws
SizeReturns ==
    /\ pc = "analyze"
    /\ queries["size"] = "pending"
    /\ \E res \in {"row", "norow", "throws"} :
         /\ queries' = [queries EXCEPT !["size"] = SizeSettles(res)]
         /\ tableSize' = IF SizeSettles(res) = "ok" THEN SizeValue(res) ELSE tableSize
         /\ sizeFailed' = (res = "throws")
    /\ AfterAnalysis(queries')
    /\ UNCHANGED <<envVars, columns, totalRows, copiedRows, postgresCount,
                   xferVars, fetchLog, batchLog, checkpoints, batchesFailed>>
    /\ UNCHANGED unitVars

\* ------------------------------------------------------- copyTableDataStream
\* line 210, while (offset < totalRows): issue the next page fetch, or leave
\* the loop, return totalInserted and let step 4 issue its count query
LoopHead(off, ins, cps) ==
    /\ offset' = off
    /\ totalInserted' = ins
    /\ checkpoints' = cps
    /\ IF off < totalRows
       THEN /\ limit' = PageLimit(off)
            /\ transfer' = "running"
            /\ pc' = "fetch"
            /\ UNCHANGED <<copiedRows, tgtStmts>>
       ELSE /\ limit' = limit
            /\ transfer' = "returned"
            /\ copiedRows' = ins
            /\ pc' = "verify"
            /\ tgtStmts' = Append(tgtStmts, "COUNT")

SetLast(bl, e) == [bl EXCEPT ![Len(bl)] = e]

\* indexes i at which the for loop of line 224 slices a page of n rows
SliceStarts(n) == { k \in 0..(n - 1) : k % CONFIG.BATCH_SIZE = 0 }

\* Which slices hold a row that cannot be bound is data of the page.  The
\* code reads a slice only when it binds it, and stops at the first slice
\* that it can bind or has to wait for: what a step does is decided by how
\* many of the slices in front of it cannot be bound.
Unbindable(starts, n) == { { k \in starts : k < m } : m \in starts \cup {n} }

\* The locals of the for loop of line 224 over a page of n rows, as the code
\* that runs between two awaits works on them.  bad holds the indexes of the
\* slices with a row that cannot be bound (a Date whose toISOString() throws);
\* at is where that code stops: at the INSERT of line 255, at the timer of
\* line 297, or behind the loop at line 302.
Loop(n, bad) ==
    [n |-> n, bad |-> bad, i |-> i, batchCount |-> batchCount,
     retries |-> retries, batchInserted |-> batchInserted,
     batchLog |-> batchLog, batchesFailed |-> batchesFailed, at |-> "running"]

\* mutant: retries is declared outside the for loop and not reset per batch
StartBatchKeepsRetries(st) ==
    [st EXCEPT !.batchCount = @ + 1,
               !.batchInserted = FALSE,
               !.batchLog = Append(@, [first |-> offset + st.i,
                                       size |-> SliceLen(st.n, st.i, CONFIG.BATCH_SIZE),
                                       attempts |-> 0, delays |-> <<>>,
                                       result |-> "pending",
                                       bindable |-> st.i \notin st.bad])]

\* lines 225-229: slice the batch at index i of the page
StartBatch(st) ==
    [st EXCEPT !.batchCount = @ + 1,
               !.retries = 0,
               !.batchInserted = FALSE,
               !.batchLog = Append(@, [first |-> offset + st.i,
                                       size |-> SliceLen(st.n, st.i, CONFIG.BATCH_SIZE),
                                       attempts |-> 0, delays |-> <<>>,
                                       result |-> "pending",
                                       bindable |-> st.i \notin st.bad])]

\* mutant: the page is left after its first batch, the other slices are
\* never attempted
AfterBatchLeavesPage(st) ==
    [st EXCEPT !.i = @ + CONFIG.BATCH_SIZE, !.at = "pageEnd"]

RECURSIVE ForLoop(_), WhileLoop(_), Catch(_), AfterBatch(_)

\* i += BATCH_SIZE and the loop head of line 224
AfterBatch(st) == ForLoop([st EXCEPT !.i = @ + CONFIG.BATCH_SIZE])

\* line 224, i < rows.length: the next batch of the page, or behind the loop
ForLoop(st) ==
    IF st.i < st.n THEN WhileLoop(StartBatch(st)) ELSE [st EXCEPT !.at = "pageEnd"]

\* lines 231-255: one more attempt of the batch while the condition holds.
\* The values are bound first (lines 238-251): the attempt fails there,
\* before any INSERT is issued, when a value cannot be bound.  The batch is
\* left without an attempt when the condition is false.
WhileLoop(st) ==
    LET cur == st.batchLog[Len(st.batchLog)] IN
    IF WhileCond(st.retries, st.batchInserted)
    THEN LET tried == [st EXCEPT !.batchLog =
                                   SetLast(@, [cur EXCEPT !.attempts = @ + 1])]
         IN  IF cur.bindable THEN [tried EXCEPT !.at = "insert"] ELSE Catch(tried)
    ELSE AfterBatch([st EXCEPT !.batchLog =
                                 SetLast(@, [cur EXCEPT !.result =
                                     IF @ = "pending" THEN "skipped" ELSE @])])

\* lines 287-297, the catch block of an attempt: count the retry, then give
\* the batch up and go on with the next one, or start the backoff timer
Catch(st) ==
    LET cur == st.batchLog[Len(st.batchLog)]
        failed == [st EXCEPT !.retries = @ + 1]
    IN  IF GiveUp(failed.retries)
        THEN AfterBatch([failed EXCEPT !.batchesFailed = @ + 1,
                                       !.batchLog = SetLast(@, [cur EXCEPT !.result = "abandoned"])])
        ELSE [failed EXCEPT !.at = "backoff"]

\* the code has run up to its next await with the loop locals st: the INSERT
\* of line 255 is issued, the timer of line 297 is started, or lines 302-307
\* end the page and the loop head of line 210 is reached
Await(ins, st) ==
    /\ rows' = st.n
    /\ i' = st.i
    /\ batchCount' = st.batchCount
    /\ retries' = st.retries
    /\ batchInserted' = st.batchInserted
    /\ batchLog' = st.batchLog
    /\ batchesFailed' = st.batchesFailed
    /\ IF st.at = "pageEnd"
       THEN LoopHead(NextOffset(offset, st.n), ins, Checkpoint(checkpoints, ins))
       ELSE /\ pc' = st.at
            /\ tgtStmts' = IF st.at = "insert" THEN Append(tgtStmts, "INSERT")
                           ELSE tgtStmts
            /\ totalInserted' = ins
            /\ UNCHANGED <<offset, limit, transfer, copiedRows, checkpoints>>


\* createPostgreSQLTable, DROP TABLE IF EXISTS returns: build and issue the
\* CREATE TABLE statement, or rethrow into the catch block of copyTable
DropReturns ==
    /\ pc = "drop"
    /\ \E ok \in BOOLEAN :
         IF ok
         THEN /\ tgtExists' = FALSE
              /\ tgtRows' = 0
              /\ pc' = "create"
              /\ tgtStmts' = Append(tgtStmts, "CREATE")
              /\ report' = report
         ELSE /\ Fail("drop")
              /\ UNCHANGED <<tgtExists, tgtRows, tgtStmts>>
    /\ UNCHANGED <<CONFIG, srcRows, srcChanges, queries, columns, totalRows,
                   tableSize, copiedRows, postgresCount, xferVars,
                   fetchLog, batchLog, checkpoints, batchesFailed>>
    /\ UNCHANGED <<sizeFailed, unitVars>>

\* CREATE TABLE returns: step 3 calls copyTableDataStream, which initialises
\* its counters and reaches the loop head; or rethrow into the catch block
CreateReturns ==
    /\ pc = "create"
    /\ \E ok \in BOOLEAN :
         IF ok
         THEN /\ tgtExists' = TRUE
              /\ tgtRows' = 0
              /\ batchCount' = 0
              /\ LoopHead(0, 0, <<>>)
              /\ report' = report
         ELSE /\ Fail("create")
              /\ UNCHANGED <<tgtExists, tgtRows, tgtStmts, copiedRows, offset,
                             limit, batchCount, totalInserted, transfer,
                             checkpoints>>
    /\ UNCHANGED <<CONFIG, srcRows, srcChanges, queries, columns, totalRows,
                   tableSize, postgresCount, rows, i, retries, batchInserted,
                   fetchLog, batchLog, batchesFailed>>
    /\ UNCHANGED <<sizeFailed, unitVars>>

\* lines 222-224, the page has n rows: an empty page breaks out of the loop
\* of line 210, a page with rows enters the for loop
PageReturned(n) ==
    /\ fetchLog' = Append(fetchLog, [offset |-> offset, limit |-> limit, n |-> n])
    /\ report' = report
    /\ IF n = 0
       THEN /\ rows' = n
            /\ transfer' = "returned"
            /\ copiedRows' = totalInserted
            /\ pc' = "verify"
            /\ tgtStmts' = Append(tgtStmts, "COUNT")
            /\ UNCHANGED <<i, batchCount, retries, batchInserted, batchLog,
                           batchesFailed, offset, limit, totalInserted,
                           checkpoints>>
       ELSE \E bad \in Unbindable(SliceStarts(n), n) :
              \E st \in {ForLoop([Loop(n, bad) EXCEPT !.i = 0])} :
                Await(totalInserted, st)

\* lines 314-317 and 330-333: the error of the page fetch is rethrown
PageFailed ==
    /\ fetchLog' = Append(fetchLog, [offset |-> offset, limit |-> limit, n |-> NoValue])
    /\ transfer' = "raised"
    /\ Fail("fetch")
    /\ UNCHANGED <<rows, i, batchCount, retries, batchInserted, batchLog,
                   batchesFailed, copiedRows, tgtStmts, offset, limit,
                   totalInserted, checkpoints>>

\* mutant: a failed page fetch is caught and the same page is fetched again
FetchReturnsRetries ==
    /\ pc = "fetch"
    /\ \E ok \in BOOLEAN :
         IF ok
         THEN PageReturned(PageLen(srcRows, offset, limit))
         ELSE /\ fetchLog' = Append(fetchLog,
                                    [offset |-> offset, limit |-> limit, n |-> NoValue])
              /\ UNCHANGED <<pc, report, transfer, rows, i, batchCount, retries,
                             batchInserted, batchLog, batchesFailed, copiedRows,
                             tgtStmts, offset, limit, totalInserted, checkpoints>>
    /\ UNCHANGED <<envVars, queries, columns, totalRows, tableSize, postgresCount>>
    /\ UNCHANGED <<sizeFailed, unitVars>>

\* mutant: a page without rows is an error
FetchReturnsEmptyRaises ==
    /\ pc = "fetch"
    /\ \E ok \in BOOLEAN :
         IF ok /\ PageLen(srcRows, offset, limit) > 0
         THEN PageReturned(PageLen(srcRows, offset, limit))
         ELSE /\ fetchLog' = Append(fetchLog,
                                    [offset |-> offset, limit |-> limit,
                                     n |-> IF ok THEN 0 ELSE NoValue])
              /\ transfer' = "raised"
              /\ Fail("fetch")
              /\ rows' = IF ok THEN 0 ELSE rows
              /\ UNCHANGED <<i, batchCount, retries, batchInserted, batchLog,
                             batchesFailed, copiedRows, tgtStmts, offset, limit,
                             totalInserted, checkpoints>>
    /\ UNCHANGED <<envVars, queries, columns, totalRows, tableSize, postgresCount>>
    /\ UNCHANGED <<sizeFailed, unitVars>>

\* SELECT ... LIMIT limit OFFSET offset returns: an empty page breaks out of
\* the loop, a page with rows runs its batches up to the first await, a
\* failure is rethrown by both catch blocks of copyTableDataStream into the
\* one of copyTable
FetchReturns ==
    /\ pc = "fetch"
    /\ \E ok \in BOOLEAN :
         IF ok THEN PageReturned(PageLen(srcRows, offset, limit)) ELSE PageFailed
    /\ UNCHANGED <<envVars, queries, columns, totalRows, tableSize, postgresCount>>
    /\ UNCHANGED <<sizeFailed, unitVars>>

\* the slices of the page behind the current one
SlicesAhead == { k \in SliceStarts(rows) : k > i }

\* INSERT of the current batch returns: on success count its rows and leave
\* the while loop; on failure run the catch block.  Either way the code goes
\* on to its next await.
InsertReturns ==
    /\ pc = "insert"
    /\ LET cur == batchLog[Len(batchLog)] IN
       \E ok \in BOOLEAN, bad \in Unbindable(SlicesAhead, rows) :
         IF ok
         THEN /\ tgtRows' = tgtRows + cur.size
              /\ \E st \in {WhileLoop([Loop(rows, bad) EXCEPT
                                     !.batchInserted = TRUE,
                                     !.batchLog = SetLast(@, [cur EXCEPT !.result = "inserted"])])} :
                    Await(Counted(totalInserted, cur.size), st)
         ELSE /\ tgtRows' = tgtRows
              /\ \E st \in {Catch(Loop(rows, bad))} : Await(totalInserted, st)
    /\ UNCHANGED <<CONFIG, srcRows, srcChanges, tgtExists, queries, columns,
                   totalRows, tableSize, postgresCount, report, fetchLog>>
    /\ UNCHANGED <<sizeFailed, unitVars>>

\* the setTimeout of line 297 fires: the while condition of line 231 is
\* evaluated again and the batch is attempted once more
BackoffElapses ==
    /\ pc = "backoff"
    /\ LET cur == batchLog[Len(batchLog)] IN
       \E bad \in Unbindable(SlicesAhead, rows) :
         \E st \in {WhileLoop([Loop(rows, bad) EXCEPT
                             !.batchLog = SetLast(@, [cur EXCEPT
                                 !.delays = Append(@, Delay(retries))])])} :
            Await(totalInserted, st)
    /\ UNCHANGED <<envVars, queries, columns, totalRows, tableSize,
                   postgresCount, report, fetchLog>>
    /\ UNCHANGED <<sizeFailed, unitVars>>

\* step 4, SELECT COUNT(*) on the target returns: compare with totalRows,
\* print the summary and the classification, process.exit(0); or catch block
VerifyReturns ==
    /\ pc = "verify"
    /\ \E ok \in BOOLEAN :
         IF ok
         THEN /\ postgresCount' = tgtRows
              /\ report' = [verification |-> Verification(totalRows, tgtRows),
                            outcome |-> Classify(copiedRows, totalRows),
                            failedAt |-> "none"]
              /\ pc' = "exit0"
         ELSE /\ Fail("verify")
              /\ postgresCount' = postgresCount
    /\ UNCHANGED <<envVars, queries, columns, totalRows, tableSize, copiedRows,
                   xferVars, logVars>>
    /\ UNCHANGED <<sizeFailed, unitVars>>

Next ==
    \/ StartCopy
    \/ DescribeReturns
    \/ CountReturns
    \/ SizeReturns
    \/ DropReturns
    \/ CreateReturns
    \/ FetchReturns
    \/ InsertReturns
    \/ BackoffElapses
    \/ VerifyReturns
    \/ SrcInsert
    \/ SrcDelete

Spec == Init /\ [][Next]_vars

\* the event loop runs every completed query and every expired timer
Program ==
    \/ StartCopy \/ DescribeReturns \/ CountReturns \/ SizeReturns
    \/ DropReturns \/ CreateReturns \/ FetchReturns \/ InsertReturns
    \/ BackoffElapses \/ VerifyReturns

FairSpec == Spec /\ WF_vars(Program)

\* ===================================================== the pure converters
\* A JavaScript string is the sequence of its characters; a JavaScript value
\* is [t |-> "null"], [t |-> "string", s |-> chars] or [t |-> "number", n |-> n].
MaxDigits == 2
MaxScaleDigits == 1
MaxTypeLen == 4
MaxCols == 2
MaxCalls == 2

Digits == {"0","1","2","3","4","5","6","7","8","9"}
UpperCase == <<"A","B","C","D","E","F","G","H","I","J","K","L","M","N","O","P","Q","R","S","T","U","V","W","X","Y","Z">>
LowerCase == <<"a","b","c","d","e","f","g","h","i","j","k","l","m","n","o","p","q","r","s","t","u","v","w","x","y","z">>

Null == [t |-> "null"]
Str(chars) == [t |-> "string", s |-> chars]
Num(n) == [t |-> "number", n |-> n]
NotCalled == [t |-> "notcalled"]

\* String.prototype.toLowerCase
ToLowerCase(s) ==
    [k \in 1..Len(s) |->
        IF \E u \in 1..Len(UpperCase) : UpperCase[u] = s[k]
        THEN LowerCase[CHOOSE u \in 1..Len(UpperCase) : UpperCase[u] = s[k]]
        ELSE s[k]]

\* s has the characters of w at position k
StartsAt(s, k, w) ==
    /\ k >= 1 /\ k + Len(w) - 1 <= Len(s)
    /\ SubSeq(s, k, k + Len(w) - 1) = w

\* String.prototype.includes
Includes(s, w) == \E k \in 1..(Len(s) + 1) : StartsAt(s, k, w)

\* length of the longest run of digits of s that starts at position k: what
\* a greedy \d+ consumes there (0: no digit at k)
DigitRun(s, k) ==
    LET runs == { n \in 0..(Len(s) - k + 1) :
                    \A j \in k..(k + n - 1) : s[j] \in Digits }
    IN CHOOSE n \in runs : \A m \in runs : m <= n

\* where /varchar\((\d+)\)/ matches s at position k: "varchar(", digits, ")"
VarcharAt(s, k) ==
    LET a == k + 8
        n == DigitRun(s, a)
    IN /\ StartsAt(s, k, <<"v","a","r","c","h","a","r","(">>)
       /\ n >= 1
       /\ StartsAt(s, a + n, <<")">>)

\* type.match(/varchar\((\d+)\)/): <<>> for null, else <<match[1]>> of the
\* leftmost match
MatchVarchar(s) ==
    LET at == { k \in 1..Len(s) : VarcharAt(s, k) } IN
    IF at = {} THEN <<>>
    ELSE LET k == CHOOSE x \in at : \A y \in at : x <= y
         IN << SubSeq(s, k + 8, k + 7 + DigitRun(s, k + 8)) >>

\* where /decimal\((\d+),(\d+)\)/ matches s at position k
DecimalAt(s, k) ==
    LET a == k + 8
        n == DigitRun(s, a)
        b == a + n + 1
        m == DigitRun(s, b)
    IN /\ StartsAt(s, k, <<"d","e","c","i","m","a","l","(">>)
       /\ n >= 1
       /\ StartsAt(s, a + n, <<",">>)
       /\ m >= 1
       /\ StartsAt(s, b + m, <<")">>)

\* type.match(/decimal\((\d+),(\d+)\)/): <<>> for null, else
\* <<match[1], match[2]>> of the leftmost match
MatchDecimal(s) ==
    LET at == { k \in 1..Len(s) : DecimalAt(s, k) } IN
    IF at = {} THEN <<>>
    ELSE LET k == CHOOSE x \in at : \A y \in at : x <= y
             a == k + 8
             n == DigitRun(s, a)
             b == a + n + 1
         IN << SubSeq(s, a, a + n - 1), SubSeq(s, b, b + DigitRun(s, b) - 1) >>

\* mutant: the size of a varchar is dropped
VarcharTypeUnsized(type) == <<"V","A","R","C","H","A","R","(","2","5","5",")">>

\* lines 90-91: VARCHAR(n) with the n of the source type, else VARCHAR(255)
VarcharType(type) ==
    LET match == MatchVarchar(type) IN
    IF match # <<>> THEN <<"V","A","R","C","H","A","R","(">> \o match[1] \o <<")">>
    ELSE <<"V","A","R","C","H","A","R","(","2","5","5",")">>

\* lines 97-98: DECIMAL(p,s) with the p and s of the source type, else DECIMAL
DecimalType(type) ==
    LET match == MatchDecimal(type) IN
    IF match # <<>>
    THEN <<"D","E","C","I","M","A","L","(">> \o match[1] \o <<",">> \o match[2] \o <<")">>
    ELSE <<"D","E","C","I","M","A","L">>

\* convertDataType: the first rule, in the order of the code, whose keyword
\* the lowercased type includes
convertDataType(mysqlTypeArg) ==
    LET type == ToLowerCase(mysqlTypeArg) IN
    IF Includes(type, <<"i","n","t","(">>) THEN <<"I","N","T","E","G","E","R">>
    ELSE IF Includes(type, <<"b","i","g","i","n","t">>) THEN <<"B","I","G","I","N","T">>
    ELSE IF Includes(type, <<"s","m","a","l","l","i","n","t">>)
         THEN <<"S","M","A","L","L","I","N","T">>
    ELSE IF Includes(type, <<"t","i","n","y","i","n","t","(","1",")">>)
         THEN <<"B","O","O","L","E","A","N">>
    ELSE IF Includes(type, <<"t","i","n","y","i","n","t">>)
         THEN <<"I","N","T","E","G","E","R">>
    ELSE IF Includes(type, <<"v","a","r","c","h","a","r">>) THEN VarcharType(type)
    ELSE IF Includes(type, <<"t","e","x","t">>) THEN <<"T","E","X","T">>
    ELSE IF Includes(type, <<"l","o","n","g","t","e","x","t">>) THEN <<"T","E","X","T">>
    ELSE IF Includes(type, <<"m","e","d","i","u","m","t","e","x","t">>)
         THEN <<"T","E","X","T">>
    ELSE IF Includes(type, <<"d","e","c","i","m","a","l">>) THEN DecimalType(type)
    ELSE IF Includes(type, <<"f","l","o","a","t">>) THEN <<"R","E","A","L">>
    ELSE IF Includes(type, <<"d","o","u","b","l","e">>)
         THEN <<"D","O","U","B","L","E"," ","P","R","E","C","I","S","I","O","N">>
    ELSE IF Includes(type, <<"d","a","t","e","t","i","m","e">>)
         THEN <<"T","I","M","E","S","T","A","M","P">>
    ELSE IF Includes(type, <<"t","i","m","e","s","t","a","m","p">>)
         THEN <<"T","I","M","E","S","T","A","M","P">>
    ELSE IF Includes(type, <<"d","a","t","e">>) THEN <<"D","A","T","E">>
    ELSE IF Includes(type, <<"t","i","m","e">>) THEN <<"T","I","M","E">>
    ELSE IF Includes(type, <<"j","s","o","n">>) THEN <<"J","S","O","N">>
    ELSE IF Includes(type, <<"e","n","u","m">>)
         THEN <<"V","A","R","C","H","A","R","(","5","0",")">>
    ELSE <<"T","E","X","T">>

\* Number.prototype.toString for the non-negative integers
RECURSIVE NumberToString(_)
NumberToString(n) ==
    LET d == <<"0","1","2","3","4","5","6","7","8","9">> IN
    IF n < 10 THEN <<d[n + 1]>>
    ELSE NumberToString(n \div 10) \o <<d[(n % 10) + 1]>>

\* defaultValue.toString()
DefaultToString(v) == IF v.t = "number" THEN NumberToString(v.n) ELSE v.s

\* lines 135-140: a string is wrapped in single quotes, any other value is
\* returned as it is
Quote(v) ==
    IF v.t = "string" THEN Str(<<"'">> \o v.s \o <<"'">>)
    ELSE v

\* convertDefaultValue; its second parameter dataType is never read
convertDefaultValue(v) ==
    IF v = Null \/ v = Str(<<"N","U","L","L">>) THEN Null
    ELSE LET defaultStr == ToLowerCase(DefaultToString(v)) IN
         IF \/ Includes(defaultStr, <<"c","u","r","r","e","n","t","_","t","i","m","e","s","t","a","m","p">>)
            \/ Includes(defaultStr, <<"n","o","w","(",")">>)
         THEN Str(<<"C","U","R","R","E","N","T","_","T","I","M","E","S","T","A","M","P">>)
         ELSE IF defaultStr = <<"0">> THEN Str(<<"0">>)
         ELSE IF defaultStr = <<"1">> THEN Str(<<"1">>)
         ELSE Quote(v)

\* ------------------------------------------------- createPostgreSQLTable
\* a CREATE TABLE statement: its column definitions and the columns of its
\* PRIMARY KEY clause (<<>>: no clause)
NoSQL == [defs |-> <<>>, pk |-> <<>>]
NoTable == [exists |-> FALSE, spec |-> NoSQL, rows |-> 0]

IsPRI(col) == col.Key = "PRI"

\* lines 155-168: name, converted type, NOT NULL and DEFAULT of one column
\* (default Null: no DEFAULT clause)
columnDefinition(col) ==
    [Field   |-> col.Field,
     type    |-> convertDataType(col.Type),
     notNull |-> (col.Null = "NO" /\ col.Key # "PRI"),
     default |-> convertDefaultValue(col.Default)]

\* lines 173-177: columns.find(col => col.Key === 'PRI'), the first such column
primaryKey(columns_) ==
    LET pri == SelectSeq(columns_, IsPRI) IN
    IF pri = <<>> THEN <<>> ELSE <<pri[1].Field>>

\* lines 152-179: the statement built from the column list
CreateSQL(columns_) ==
    [defs |-> [k \in 1..Len(columns_) |-> columnDefinition(columns_[k])],
     pk   |-> primaryKey(columns_)]

\* mutant: the table is not dropped
DroppedKeeps(t) == t

\* DROP TABLE IF EXISTS: no table afterwards, whatever there was
Dropped(t) == NoTable

\* CREATE TABLE on a name that is free: the table of the statement, empty
CreatedTable(sql) == [exists |-> TRUE, spec |-> sql, rows |-> 0]

\* ------------------------------------------------------------ the inputs
DigitStrings(n) == UNION { [1..k -> Digits] : k \in 1..n }

TypeAlphabet == {"i","n","t","(","1",")"}

KnownTypes ==
    { <<"i","n","t","(","1","1",")">>, <<"i","n","t">>, <<"i","n","t"," ","u","n","s","i","g","n","e","d">>, <<"m","e","d","i","u","m","i","n","t","(","9",")">>,
      <<"b","i","g","i","n","t","(","2","0",")">>, <<"b","i","g","i","n","t">>, <<"b","i","g","i","n","t","(","2","0",")"," ","u","n","s","i","g","n","e","d">>,
      <<"s","m","a","l","l","i","n","t","(","6",")">>, <<"s","m","a","l","l","i","n","t">>,
      <<"t","i","n","y","i","n","t","(","1",")">>, <<"t","i","n","y","i","n","t","(","4",")">>, <<"t","i","n","y","i","n","t">>,
      <<"v","a","r","c","h","a","r">>, <<"v","a","r","c","h","a","r","(",")">>, <<"v","a","r","c","h","a","r","(","x",")">>, <<"V","A","R","C","H","A","R","(","1","2","0",")">>,
      <<"V","a","r","c","h","a","r","(","6","4",")">>, <<"c","h","a","r","(","3","6",")">>,
      <<"t","e","x","t">>, <<"t","i","n","y","t","e","x","t">>, <<"m","e","d","i","u","m","t","e","x","t">>, <<"l","o","n","g","t","e","x","t">>,
      <<"d","e","c","i","m","a","l">>, <<"d","e","c","i","m","a","l","(","1","0",")">>, <<"D","E","C","I","M","A","L","(","1","0",",","2",")">>, <<"d","e","c","i","m","a","l","(","1","0",",","2",")"," ","u","n","s","i","g","n","e","d">>,
      <<"f","l","o","a","t">>, <<"d","o","u","b","l","e">>, <<"d","a","t","e","t","i","m","e">>, <<"t","i","m","e","s","t","a","m","p">>, <<"d","a","t","e">>, <<"t","i","m","e">>,
      <<"y","e","a","r">>, <<"j","s","o","n">>, <<"e","n","u","m","(","'","a","'",",","'","b","'",")">>, <<"b","l","o","b">>, <<"b","i","t","(","1",")">>, <<>> }

TypeStrings ==
    KnownTypes
    \cup { <<"v","a","r","c","h","a","r","(">> \o L \o <<")">> : L \in DigitStrings(MaxDigits) }
    \cup { <<"d","e","c","i","m","a","l","(">> \o p \o <<",">> \o sc \o <<")">> :
             p \in DigitStrings(MaxDigits), sc \in DigitStrings(MaxScaleDigits) }
    \cup UNION { [1..k -> TypeAlphabet] : k \in 1..MaxTypeLen }

DefaultValues ==
    { Null, Str(<<"N","U","L","L">>), Str(<<"C","U","R","R","E","N","T","_","T","I","M","E","S","T","A","M","P">>), Str(<<"c","u","r","r","e","n","t","_","t","i","m","e","s","t","a","m","p","(",")">>),
      Str(<<"n","o","w","(",")">>), Str(<<"N","O","W","(",")">>), Str(<<"a","b","c">>), Str(<<"A","c","t","i","v","e">>), Str(<<>>),
      Str(<<"0",".","0","0">>), Str(<<"1","0","0">>), Num(0), Num(1), Num(5), Num(100) }
    \cup { Str(d) : d \in DigitStrings(MaxDigits) }

\* rows of DESCRIBE: Field, Type, Null, Key, Default
ColumnPool ==
    { [Field |-> "id", Type |-> <<"i","n","t","(","1","1",")">>, Null |-> "NO", Key |-> "PRI",
       Default |-> Null],
      [Field |-> "tenant_id", Type |-> <<"b","i","g","i","n","t","(","2","0",")">>, Null |-> "NO", Key |-> "PRI",
       Default |-> Null],
      [Field |-> "name", Type |-> <<"v","a","r","c","h","a","r","(","1","2","0",")">>, Null |-> "NO", Key |-> "",
       Default |-> Null],
      [Field |-> "active", Type |-> <<"t","i","n","y","i","n","t","(","1",")">>, Null |-> "YES", Key |-> "",
       Default |-> Str(<<"1">>)],
      [Field |-> "qty", Type |-> <<"i","n","t","(","1","1",")">>, Null |-> "NO", Key |-> "MUL",
       Default |-> Str(<<"5">>)],
      [Field |-> "created_at", Type |-> <<"d","a","t","e","t","i","m","e">>, Null |-> "YES", Key |-> "",
       Default |-> Str(<<"C","U","R","R","E","N","T","_","T","I","M","E","S","T","A","M","P">>)] }

ColumnLists ==
    { c \in UNION { [1..n -> ColumnPool] : n \in 1..MaxCols } :
        \A a, b \in DOMAIN c : a # b => c[a].Field # c[b].Field }

\* the target before the call: absent, or left by an earlier run with some
\* columns and some rows
PriorTables ==
    {NoTable} \cup
    { [exists |-> TRUE, spec |-> CreateSQL(<<col>>), rows |-> r] :
        col \in { c \in ColumnPool : c.Field \in {"id", "name"} },
        r \in 0..MaxPriorRows }

\* ------------------------------------------ progress line, lines 260-270
MaxProgressRows == 6
ProgressIntervalMs == 5000

Infinity == [t |-> "Infinity"]
NaN == [t |-> "NaN"]

\* Math.round(num / den) for num >= 0 and den > 0
Round(num, den) == (2 * num + den) \div (2 * den)

\* Math.round(x / y) for integers x >= 0, y >= 0: a division by zero gives
\* Infinity, or NaN for 0 / 0, and Math.round returns either unchanged
RoundedQuotient(x, y) ==
    IF y > 0 THEN Num(Round(x, y))
    ELSE IF x > 0 THEN Infinity
    ELSE NaN

\* floor(log2(num / den)) for num > 0 and den > 0
RECURSIVE FloorLog2(_, _)
FloorLog2(num, den) ==
    IF num >= 2 * den THEN FloorLog2(num, 2 * den) + 1
    ELSE IF num < den THEN FloorLog2(2 * num, den) - 1
    ELSE 0

RECURSIVE Pow2(_)
Pow2(n) == IF n <= 0 THEN 1 ELSE 2 * Pow2(n - 1)

\* (r * 2^s) mod 1000
RECURSIVE ScaledMod(_, _)
ScaledMod(r, s) == IF s <= 0 THEN r % 1000 ELSE ScaledMod((2 * r) % 1000, s - 1)

\* elapsed / 1000 is a double e = M * 2^x with a significand M of 53 bits:
\* x is SecondsExp - 52, and SecondsRem is what the division that gives M
\* leaves, so that e is exact when it is 0, below elapsed / 1000 when it is
\* less than 500 and above it by (1000 - SecondsRem) * 2^x / 1000 otherwise
SecondsExp(elapsed) == FloorLog2(elapsed, 1000)
SecondsRem(elapsed) == ScaledMod(elapsed % 1000, 52 - SecondsExp(elapsed))

\* The exact speed is k + 1/2.  The double totalInserted / e is k + 1/2 too,
\* and Math.round gives k + 1, unless e is above elapsed / 1000 by so much
\* that the quotient is nearer to the double just below k + 1/2: then
\* Math.round gives k.
TieRoundsUp(k, elapsed) ==
    LET r == SecondsRem(elapsed)
        c == 1000 - r
        lq == IF k > 0 THEN FloorLog2(2 * k + 1, 2) ELSE 0 - 2
        d == SecondsExp(elapsed) - lq
    IN  r <= 500 \/ (2 * k + 1) * c * Pow2(d) <= elapsed * Pow2(0 - d)

\* line 263: Math.round(totalInserted / (elapsed / 1000)), two divisions of
\* doubles.  Their rounding error matters only when the exact speed lies
\* halfway between two integers.
Speed(ins, elapsed) ==
    LET num == ins * 1000
        k == num \div elapsed
    IN  IF 2 * (num % elapsed) # elapsed THEN Round(num, elapsed)
        ELSE IF TieRoundsUp(k, elapsed) THEN k + 1
        ELSE k

\* line 264: totalInserted > 0 ? Math.round((totalRows - totalInserted) / speed) : 0
Eta(ins, total, speed) ==
    IF ins > 0 THEN RoundedQuotient(total - ins, speed) ELSE Num(0)

\* the speed and the ETA of the progress line
ProgressLine(args) ==
    LET speed == Speed(args.totalInserted, args.elapsed) IN
    [speed |-> speed, eta |-> Eta(args.totalInserted, args.totalRows, speed)]

\* a progress line is printed after a batch was inserted, more than five
\* seconds after the start; 66 rows in 8800 ms and 68 rows in 5440 ms are
\* speeds of 7.5 and 12.5 rows per second that the doubles round down, 13
\* rows in 5200 ms one of 2.5 that they round up
ElapsedMs ==
    {ProgressIntervalMs + 1, 2 * ProgressIntervalMs, 12 * ProgressIntervalMs,
     5200, 5440, 8800}

ProgressRows == (1..MaxProgressRows) \cup {13, 66, 68, 132}

ProgressInputs ==
    { a \in [totalInserted : ProgressRows, totalRows : ProgressRows,
             elapsed : ElapsedMs] : a.totalInserted <= a.totalRows }

\* --------------------------------------- batch insert, lines 199 and 233-253
MaxBatchRows == 2

NoStmt == [columnNames |-> <<>>, placeholders |-> <<>>, values |-> <<>>,
           thrown |-> FALSE]

\* binding the values threw: no statement is built and none is issued
Thrown == [columnNames |-> <<>>, placeholders |-> <<>>, values |-> <<>>,
           thrown |-> TRUE]

RangeError == [t |-> "RangeError"]

\* mutant: the column list of the INSERT is in reverse order
columnNamesReversed(columns_) ==
    [k \in 1..Len(columns_) |-> columns_[Len(columns_) - k + 1].Field]

\* line 199: columns.map(col => col.Field)
columnNames(columns_) == [k \in 1..Len(columns_) |-> columns_[k].Field]

\* row number j of the source as mysql2 delivers it: an object keyed by
\* column name, with a Date in the datetime columns; the Date is an Invalid
\* Date (the one of a zero date) in the rows of invalid
SourceRow(columns_, j, invalid) ==
    [f \in { columns_[k].Field : k \in 1..Len(columns_) } |->
        LET col == CHOOSE c \in { columns_[k] : k \in 1..Len(columns_) } : c.Field = f IN
        [t |-> IF convertDataType(col.Type) = <<"T","I","M","E","S","T","A","M","P">>
               THEN (IF j \in invalid THEN "InvalidDate" ELSE "Date")
               ELSE "value",
         row |-> j, field |-> f]]

SourceBatch(columns_, m, invalid) ==
    [j \in 1..m |-> SourceRow(columns_, j, invalid)]

\* lines 243-245: a Date is bound as its ISO string, and toISOString()
\* throws a RangeError on an Invalid Date
Bound(value) ==
    IF value.t = "Date" THEN [value EXCEPT !.t = "isoString"]
    ELSE IF value.t = "InvalidDate" THEN RangeError
    ELSE value

\* lines 240-249, columns.forEach from column k on: push the value of the
\* column and the next placeholder, up to the first value that throws
RECURSIVE BindRow(_, _, _, _)
BindRow(columns_, row, k, acc) ==
    IF k > Len(columns_) THEN acc
    ELSE LET value == Bound(row[columns_[k].Field]) IN
         IF value = RangeError THEN [acc EXCEPT !.thrown = TRUE]
         ELSE BindRow(columns_, row, k + 1,
                      [values |-> Append(acc.values, value),
                       rowPlaceholders |-> Append(acc.rowPlaceholders, acc.parameterIndex),
                       parameterIndex |-> acc.parameterIndex + 1,
                       thrown |-> FALSE])

\* lines 238-251, batch.forEach from row j on, up to the first row that throws
RECURSIVE BindBatch(_, _, _, _)
BindBatch(columns_, rows_, j, acc) ==
    IF j > Len(rows_) THEN acc
    ELSE LET r == BindRow(columns_, rows_[j], 1,
                          [values |-> acc.values, rowPlaceholders |-> <<>>,
                           parameterIndex |-> acc.parameterIndex,
                           thrown |-> FALSE])
         IN IF r.thrown THEN [acc EXCEPT !.thrown = TRUE]
            ELSE BindBatch(columns_, rows_, j + 1,
                           [values |-> r.values,
                            placeholders |-> Append(acc.placeholders, r.rowPlaceholders),
                            parameterIndex |-> r.parameterIndex,
                            thrown |-> FALSE])

\* lines 233-255: the INSERT statement of a batch and its bound values; the
\* error of a value that cannot be bound leaves the try block before the
\* statement is built
InsertStatement(columns_, rows_) ==
    LET b == BindBatch(columns_, rows_, 1,
                       [values |-> <<>>, placeholders |-> <<>>,
                        parameterIndex |-> 1, thrown |-> FALSE])
    IN IF b.thrown THEN Thrown
       ELSE [columnNames |-> columnNames(columns_),
             placeholders |-> b.placeholders,
             values |-> b.values,
             thrown |-> FALSE]

\* ----------------------------------------------------------- unit harness
Calling(fn) == [fn |-> fn, at |-> "called"]

\* the program is not running
ProgramIdle ==
    /\ CONFIG = CHOOSE c \in Configs : \A d \in Configs :
                   /\ c.BATCH_SIZE <= d.BATCH_SIZE
                   /\ c.STREAM_LIMIT <= d.STREAM_LIMIT
                   /\ c.MAX_RETRIES <= d.MAX_RETRIES
    /\ srcRows = 0 /\ srcChanges = 0
    /\ tgtExists = FALSE /\ tgtRows = 0
    /\ pc = "start"
    /\ queries = [q \in {"structure", "count", "size"} |-> "idle"]
    /\ columns = FALSE
    /\ totalRows = NoValue /\ tableSize = NoValue
    /\ offset = 0 /\ limit = 0 /\ rows = 0 /\ i = 0
    /\ batchCount = 0 /\ retries = 0 /\ batchInserted = FALSE
    /\ totalInserted = 0
    /\ transfer = "notcalled"
    /\ copiedRows = NoValue /\ postgresCount = NoValue
    /\ report = NoReport
    /\ fetchLog = <<>> /\ batchLog = <<>> /\ checkpoints = <<>>
    /\ batchesFailed = 0 /\ tgtStmts = <<>>
    /\ sizeFailed = FALSE

programVars == <<envVars, orchVars, xferVars, logVars, sizeFailed>>

\* one of the three functions is called with arguments from the input sets
UnitInit ==
    /\ ProgramIdle
    /\ pgType = <<>> /\ convertedDefault = NotCalled
    /\ createSQL = NoSQL /\ calls = 0 /\ firstTable = NoTable
    /\ progressLine = NotCalled /\ batch = <<>> /\ insertStmt = NoStmt
    /\ \/ /\ unit = Calling("convertDataType")
          /\ mysqlType \in TypeStrings
          /\ defaultValue = NotCalled /\ cols = <<>> /\ table = NoTable
          /\ progressArgs = NotCalled
       \/ /\ unit = Calling("convertDefaultValue")
          /\ defaultValue \in DefaultValues
          /\ mysqlType = <<>> /\ cols = <<>> /\ table = NoTable
          /\ progressArgs = NotCalled
       \/ /\ unit = [fn |-> "createPostgreSQLTable", at |-> "drop"]
          /\ cols \in ColumnLists
          /\ table \in PriorTables
          /\ mysqlType = <<>> /\ defaultValue = NotCalled
          /\ progressArgs = NotCalled
       \/ /\ unit = Calling("progress")
          /\ progressArgs \in ProgressInputs
          /\ mysqlType = <<>> /\ defaultValue = NotCalled
          /\ cols = <<>> /\ table = NoTable

\* convertDataType(mysqlType) returns
ConvertDataType ==
    /\ unit = Calling("convertDataType")
    /\ pgType' = convertDataType(mysqlType)
    /\ unit' = [unit EXCEPT !.at = "returned"]
    /\ UNCHANGED <<mysqlType, defaultValue, convertedDefault, cols, createSQL,
                   table, calls, firstTable, programVars,
                   loopVars>>

\* convertDefaultValue(defaultValue, dataType) returns
ConvertDefaultValue ==
    /\ unit = Calling("convertDefaultValue")
    /\ convertedDefault' = convertDefaultValue(defaultValue)
    /\ unit' = [unit EXCEPT !.at = "returned"]
    /\ UNCHANGED <<mysqlType, pgType, defaultValue, cols, createSQL,
                   table, calls, firstTable, programVars,
                   loopVars>>

\* line 149, DROP TABLE IF EXISTS returns: the statement is built, logged
\* and issued; or the query throws and the catch rethrows
DropTableReturns ==
    /\ unit = [fn |-> "createPostgreSQLTable", at |-> "drop"]
    /\ \E ok \in BOOLEAN :
         IF ok
         THEN /\ table' = Dropped(table)
              /\ createSQL' = CreateSQL(cols)
              /\ unit' = [unit EXCEPT !.at = "create"]
         ELSE /\ unit' = [unit EXCEPT !.at = "raised"]
              /\ UNCHANGED <<table, createSQL>>
    /\ UNCHANGED <<mysqlType, pgType, defaultValue, convertedDefault, cols,
                   calls, firstTable, programVars,
                   loopVars>>

\* line 184, CREATE TABLE returns: the table is there and the call returns;
\* or the query throws (it does when the name is taken) and the catch rethrows
CreateTableReturns ==
    /\ unit = [fn |-> "createPostgreSQLTable", at |-> "create"]
    /\ \E ok \in BOOLEAN :
         IF ok /\ ~table.exists
         THEN /\ table' = CreatedTable(createSQL)
              /\ unit' = [unit EXCEPT !.at = "returned"]
              /\ calls' = calls + 1
              /\ firstTable' = IF calls = 0 THEN table' ELSE firstTable
         ELSE /\ unit' = [unit EXCEPT !.at = "raised"]
              /\ UNCHANGED <<table, calls, firstTable>>
    /\ UNCHANGED <<mysqlType, pgType, defaultValue, convertedDefault, cols,
                   createSQL, programVars,
                   loopVars>>

\* rows are copied into the table that a completed call left
RowsInserted ==
    /\ unit.fn = "createPostgreSQLTable"
    /\ unit.at \in {"returned", "used"}
    /\ table.rows < MaxPriorRows
    /\ table' = [table EXCEPT !.rows = @ + 1]
    /\ unit' = [unit EXCEPT !.at = "used"]
    /\ UNCHANGED <<mysqlType, pgType, defaultValue, convertedDefault, cols,
                   createSQL, calls, firstTable, programVars,
                   loopVars>>

\* createPostgreSQLTable is called again with the same arguments
CallAgain ==
    /\ unit.fn = "createPostgreSQLTable"
    /\ unit.at \in {"returned", "used"}
    /\ calls < MaxCalls
    /\ unit' = [unit EXCEPT !.at = "drop"]
    /\ UNCHANGED <<mysqlType, pgType, defaultValue, convertedDefault, cols,
                   createSQL, table, calls, firstTable, programVars,
                   loopVars>>

\* lines 233-255: the INSERT of a batch of the source rows is prepared for
\* the table that createPostgreSQLTable built from the same column list, or
\* binding its values throws
BatchPrepared ==
    /\ unit.fn = "createPostgreSQLTable"
    /\ unit.at \in {"returned", "used"}
    /\ \E m \in 1..MaxBatchRows, invalid \in SUBSET (1..MaxBatchRows) :
         /\ invalid \subseteq 1..m
         /\ batch' = SourceBatch(cols, m, invalid)
         /\ insertStmt' = InsertStatement(cols, batch')
    /\ UNCHANGED <<unit, mysqlType, pgType, defaultValue, convertedDefault, cols,
                   createSQL, table, calls, firstTable, progressArgs,
                   progressLine, programVars>>

\* lines 260-270: the five seconds have passed, the progress line is printed
ProgressPrinted ==
    /\ unit = Calling("progress")
    /\ progressLine' = ProgressLine(progressArgs)
    /\ unit' = [unit EXCEPT !.at = "returned"]
    /\ UNCHANGED <<mysqlType, pgType, defaultValue, convertedDefault, cols,
                   createSQL, table, calls, firstTable, progressArgs, batch,
                   insertStmt, programVars>>

UnitNext ==
    \/ BatchPrepared
    \/ ProgressPrinted
    \/ ConvertDataType
    \/ ConvertDefaultValue
    \/ DropTableReturns
    \/ CreateTableReturns
    \/ RowsInserted
    \/ CallAgain

UnitSpec == UnitInit /\ [][UnitNext]_vars


\* ------------------------------------------------------------------ claims
\* what the logs of a run add up to
RECURSIVE SumInserted(_)
SumInserted(bl) ==
    IF bl = <<>> THEN 0
    ELSE (IF bl[Len(bl)].result = "inserted" THEN bl[Len(bl)].size ELSE 0)
         + SumInserted(SubSeq(bl, 1, Len(bl) - 1))

RECURSIVE SumFetched(_)
SumFetched(fl) ==
    IF fl = <<>> THEN 0
    ELSE Max(0, fl[Len(fl)].n) + SumFetched(SubSeq(fl, 1, Len(fl) - 1))

Batches == {batchLog[k] : k \in 1..Len(batchLog)}
CeilDiv(a, b) == (a + b - 1) \div b

\* no attempt of any insert failed so far
NoInsertFailed == \A k \in 1..Len(batchLog) : batchLog[k].attempts = 1 /\ batchLog[k].result # "abandoned"
\* every batch sliced so far lost all its attempts
AllAbandoned == \A k \in 1..Len(batchLog) : batchLog[k].result = "abandoned"
\* the source held the counted rows during the whole run
SourceSteady == srcChanges = 0 /\ totalRows = srcRows

\* C1: when the source keeps its R rows and no fetch or insert fails, the
\* transfer returns exactly R; and what it returns is always the sum of the
\* sizes of the batches whose insert succeeded.
C1_ReturnsAllRows ==
    transfer = "returned" =>
        /\ copiedRows = SumInserted(batchLog)
        /\ (SourceSteady /\ NoInsertFailed) => copiedRows = totalRows

C1_Witness ==
    /\ transfer = "returned" /\ SourceSteady /\ NoInsertFailed
    /\ totalRows = 12 /\ Len(batchLog) = 3 /\ copiedRows = 12

\* C2 as stated: when every attempt of every insert fails the transfer
\* returns 0 and the orchestrator ends in its final report, classified partial.
C2_AllFailedReachesReport ==
    (/\ pc \in {"exit0", "exit1"} /\ transfer = "returned"
     /\ batchLog # <<>> /\ AllAbandoned /\ SourceSteady) =>
        /\ copiedRows = 0
        /\ pc = "exit0"
        /\ report.outcome = "PARTIAL"

\* C2 amended: when every attempt of every insert fails the transfer returns 0
\* without raising after fetching every page, and the orchestrator ends in its
\* final report classified partial unless the count query of step 4 fails.
C2_AllFailedPartialUnlessVerifyFails ==
    (transfer = "returned" /\ AllAbandoned /\ totalRows > 0) =>
        /\ copiedRows = 0
        /\ tgtRows = 0
        /\ offset = totalRows \/ (fetchLog # <<>> /\ fetchLog[Len(fetchLog)].n = 0)
        /\ SourceSteady => SumFetched(fetchLog) = totalRows
        /\ pc \in {"verify", "exit0", "exit1"}
        /\ pc = "exit0" => report.outcome = "PARTIAL"
        /\ pc = "exit1" => report.failedAt = "verify"

C2_Witness ==
    /\ pc = "exit0" /\ AllAbandoned /\ Len(batchLog) = 3
    /\ CONFIG.MAX_RETRIES = 3 /\ \A b \in Batches : b.attempts = 3
    /\ copiedRows = 0 /\ report.outcome = "PARTIAL" /\ SumFetched(fetchLog) = 12


\* sizes of the batches a page of n rows is sliced into
ExpectedSlices(n, width) ==
    [k \in 1..CeilDiv(n, width) |-> IF k * width <= n THEN width ELSE n - (k - 1) * width]

\* the page fetches of a table of R rows: offset and size of each
ExpectedPages(R, width) ==
    [k \in 1..CeilDiv(R, width) |->
        [offset |-> (k - 1) * width,
         n |-> IF k * width <= R THEN width ELSE R % width]]

RECURSIVE ExpectedBatches(_, _)
ExpectedBatches(pages, width) ==
    IF pages = <<>> THEN <<>>
    ELSE ExpectedBatches(SubSeq(pages, 1, Len(pages) - 1), width)
         \o ExpectedSlices(pages[Len(pages)].n, width)

\* C3: a batch whose insert fails k < MAX_RETRIES times and then succeeds is
\* counted once and as a success: rowsCopied is the sum of the inserted
\* batches, the permanent-failure count covers the abandoned batches only,
\* an inserted batch waited exactly one delay per failed attempt, and no
\* batch is given up while it has failed fewer than MAX_RETRIES times.
C3_RetriedBatchCountsOnce ==
    /\ totalInserted = SumInserted(batchLog)
    /\ batchesFailed = Cardinality({k \in 1..Len(batchLog) : batchLog[k].result = "abandoned"})
    /\ \A b \in Batches :
         /\ b.result = "inserted" =>
               b.attempts <= CONFIG.MAX_RETRIES /\ Len(b.delays) = b.attempts - 1
         /\ b.result = "abandoned" => b.attempts = CONFIG.MAX_RETRIES
    /\ pc \in {"insert", "backoff"} =>
         /\ retries < CONFIG.MAX_RETRIES
         /\ batchLog[Len(batchLog)].result = "pending"

C3_Witness ==
    /\ CONFIG.MAX_RETRIES = 3
    /\ batchLog # <<>>
    /\ LET b == batchLog[Len(batchLog)] IN
         /\ b.result = "inserted" /\ b.attempts = 3 /\ Len(b.delays) = 2
         /\ totalInserted = b.size
    /\ batchesFailed = 0

\* C4 (state part): no batch is executed more than MAX_RETRIES times, a batch is
\* abandoned only after MAX_RETRIES failed attempts, and the rows of abandoned
\* batches are neither counted nor in the target.
C4_AbandonedBatchAddsNothing ==
    /\ \A b \in Batches :
         /\ b.attempts <= CONFIG.MAX_RETRIES
         /\ b.result = "abandoned" => b.attempts = CONFIG.MAX_RETRIES
    /\ transfer # "notcalled" =>
         /\ totalInserted = SumInserted(batchLog)
         /\ tgtRows = SumInserted(batchLog)

\* number of batches of the log that were given up
Abandoned(bl) == Cardinality({k \in 1..Len(bl) : bl[k].result = "abandoned"})

\* C4: the state part, and giving a batch up does not abort: every batch given
\* up in a step is logged as abandoned and leaves the counters alone, and the
\* transfer goes on with the next slice of the same page, or ends the page
\* when that was its last slice and fetches the next one (or returns).
C4_AbandonAndContinue ==
    /\ []C4_AbandonedBatchAddsNothing
    /\ [][batchesFailed' # batchesFailed =>
            /\ batchesFailed' - batchesFailed = Abandoned(batchLog') - Abandoned(batchLog)
            /\ totalInserted' - totalInserted
                  = SumInserted(batchLog') - SumInserted(batchLog)
            /\ tgtRows' - tgtRows = totalInserted' - totalInserted
            /\ transfer' \in {"running", "returned"}
            /\ \A k \in (Len(batchLog) + 1)..Len(batchLog') :
                 batchLog'[k].first
                   = IF k = Len(batchLog) + 1 /\ pc = "fetch" THEN offset
                     ELSE batchLog'[k - 1].first + CONFIG.BATCH_SIZE
            /\ LET last == batchLog'[Len(batchLog')] IN
               IF last.first + CONFIG.BATCH_SIZE < offset + rows'
               THEN /\ pc' \in {"insert", "backoff"}
                    /\ last.result = "pending"
                    /\ offset' = offset
               ELSE \/ /\ pc' \in {"insert", "backoff"}
                       /\ last.result = "pending"
                       /\ offset' = offset
                    \/ /\ pc' \in {"fetch", "verify"}
                       /\ last.result = "abandoned"
                       /\ offset' = offset + rows'
                       /\ pc' = "verify" <=> offset' >= totalRows]_vars

C4_Witness ==
    /\ CONFIG.MAX_RETRIES = 3
    /\ Len(batchLog) = 3
    /\ batchLog[1].result = "abandoned" /\ batchLog[1].attempts = 3
    /\ batchLog[2].result = "inserted"
    /\ batchLog[3].result = "inserted"
    /\ transfer = "returned" /\ copiedRows = totalRows - batchLog[1].size

\* the run so far had no failure and the source kept its rows
NoFailureRun == SourceSteady /\ NoInsertFailed /\ transfer \in {"running", "returned"}

\* C5: without failures a table of R rows is fetched in pages of STREAM_LIMIT
\* rows (the last one R mod STREAM_LIMIT when that is not zero), each at the
\* offset of the rows fetched before it, and every page is sliced into
\* consecutive batches of BATCH_SIZE rows, the last of a page possibly smaller;
\* R = 12 with batches of 5 and pages of 10 gives fetches 10, 2 and batches 5, 5, 2.
C5_PagesAndBatches ==
    NoFailureRun =>
        LET pages == ExpectedPages(totalRows, CONFIG.STREAM_LIMIT)
            slices == ExpectedBatches(pages, CONFIG.BATCH_SIZE)
        IN  /\ Len(fetchLog) <= Len(pages)
            /\ \A k \in 1..Len(fetchLog) :
                 /\ fetchLog[k].offset = pages[k].offset
                 /\ fetchLog[k].n = pages[k].n
                 /\ fetchLog[k].offset = SumFetched(SubSeq(fetchLog, 1, k - 1))
            /\ Len(batchLog) <= Len(slices)
            /\ \A k \in 1..Len(batchLog) : batchLog[k].size = slices[k]
            /\ transfer = "returned" =>
                 /\ Len(fetchLog) = Len(pages)
                 /\ Len(batchLog) = Len(slices)
                 /\ (totalRows = 12 /\ CONFIG.BATCH_SIZE = 5 /\ CONFIG.STREAM_LIMIT = 10) =>
                      /\ [k \in 1..Len(fetchLog) |-> fetchLog[k].n] = <<10, 2>>
                      /\ [k \in 1..Len(batchLog) |-> batchLog[k].size] = <<5, 5, 2>>

C5_Witness ==
    /\ NoFailureRun /\ transfer = "returned"
    /\ totalRows = 12 /\ CONFIG.BATCH_SIZE = 5 /\ CONFIG.STREAM_LIMIT = 10
    /\ Len(fetchLog) = 2 /\ Len(batchLog) = 3 /\ copiedRows = 12


Done == transfer \in {"returned", "raised"}
LastFetchEmpty == fetchLog # <<>> /\ fetchLog[Len(fetchLog)].n = 0

\* C6: copyTableDataStream terminates: a fetch is outstanding only while
\* offset < totalRows, an empty page ends the loop at once, every page that
\* was processed moves the offset up by its (positive) number of rows, and
\* under every pattern of insert failures a running transfer returns or raises.
C6_Terminates ==
    /\ [](transfer = "running" => offset < totalRows)
    /\ [](LastFetchEmpty => transfer = "returned")
    /\ [][offset' # offset => (rows' > 0 /\ offset' = offset + rows')]_vars
    /\ [][(pc \in {"insert", "backoff"} /\ pc' \in {"fetch", "verify"})
            => offset' > offset]_vars
    /\ (transfer = "running") ~> Done

C6_Witness ==
    /\ transfer = "returned" /\ Len(fetchLog) >= 2
    /\ batchesFailed >= 1
    /\ \E b \in Batches : b.result = "inserted" /\ b.attempts > 1

\* C7: at every point of a transfer 0 <= rowsCopied <= totalRows, whatever
\* happens to the source after the count; a transfer that copied fewer rows
\* than totalRows returns that number normally (only a failed fetch raises)
\* and the run is then reported as partial, not as failed.
C7_CopiedWithinTotal ==
    /\ transfer # "notcalled" =>
         /\ 0 <= totalInserted /\ totalInserted <= totalRows
         /\ tgtRows <= totalRows
    /\ transfer = "returned" =>
         /\ copiedRows = totalInserted
         /\ report.failedAt \in {"none", "verify"}
         /\ pc = "exit0" =>
              report.outcome = IF copiedRows < totalRows THEN "PARTIAL" ELSE "SUCCESS"
    /\ transfer = "raised" <=> report.failedAt = "fetch"
    /\ transfer # "returned" => copiedRows = NoValue

C7_Witness ==
    /\ transfer = "returned" /\ pc = "exit0"
    /\ srcRows > totalRows
    /\ copiedRows > 0 /\ copiedRows < totalRows
    /\ report.outcome = "PARTIAL"

Rank(stmt) ==
    CASE stmt = "DROP" -> 1 [] stmt = "CREATE" -> 2
      [] stmt = "INSERT" -> 3 [] stmt = "COUNT" -> 4

Issued(stmt) == \E k \in 1..Len(tgtStmts) : tgtStmts[k] = stmt
Created == Issued("CREATE") /\ pc # "create" /\ report.failedAt # "create"

\* C8: the phases run in the order analysis, schema creation, transfer,
\* verification: nothing is issued on the target before the columns and the
\* row count are there, no page is fetched and no insert issued before
\* CREATE TABLE has succeeded, and the count of step 4 is issued only after
\* the transfer has returned.
C8_PhasesInOrder ==
    /\ tgtStmts # <<>> =>
         /\ columns /\ totalRows # NoValue
         /\ \A q \in DOMAIN queries : queries[q] = "ok"
    /\ \A j, k \in 1..Len(tgtStmts) :
         j < k => /\ Rank(tgtStmts[j]) <= Rank(tgtStmts[k])
                  /\ Rank(tgtStmts[j]) = Rank(tgtStmts[k]) => tgtStmts[j] = "INSERT"
    /\ (pc = "fetch" \/ fetchLog # <<>> \/ Issued("INSERT") \/ transfer # "notcalled") =>
         Created /\ tgtExists
    /\ Issued("CREATE") => Issued("DROP")
    /\ Issued("COUNT") => transfer = "returned" /\ copiedRows # NoValue
    /\ pc \in {"fetch", "insert", "backoff"} <=> transfer = "running"

C8_Witness ==
    /\ pc = "exit0"
    /\ Len(fetchLog) = 2 /\ Len(batchLog) = 3
    /\ Len(tgtStmts) >= 6
    /\ tgtStmts[1] = "DROP" /\ tgtStmts[2] = "CREATE"
    /\ tgtStmts[Len(tgtStmts)] = "COUNT"

\* C9: a failure of DESCRIBE or of the row count, in whatever order the three
\* analysis queries complete, aborts the run with nothing executed on the
\* target; a failure of DROP TABLE or CREATE TABLE aborts it with no page
\* fetched and no row inserted.
C9_FatalPhasesAbort ==
    /\ (queries["structure"] = "failed" \/ queries["count"] = "failed") =>
         /\ pc = "exit1"
         /\ report.outcome = "FAILED" /\ report.failedAt \in {"structure", "count"}
         /\ tgtStmts = <<>>
         /\ transfer = "notcalled" /\ fetchLog = <<>>
    /\ report.failedAt \in {"structure", "count"} => tgtStmts = <<>>
    /\ report.failedAt \in {"drop", "create"} =>
         /\ pc = "exit1" /\ report.outcome = "FAILED"
         /\ transfer = "notcalled" /\ fetchLog = <<>>
         /\ ~Issued("INSERT") /\ totalInserted = 0
         /\ tgtStmts = IF report.failedAt = "drop" THEN <<"DROP">> ELSE <<"DROP", "CREATE">>

C9_Witness ==
    /\ report.failedAt = "count"
    /\ queries["structure"] = "ok" /\ queries["size"] = "pending"
    /\ pc = "exit1" /\ tgtStmts = <<>>

\* C10 as stated: success is reported only when all rows were copied and the
\* counts matched, partial success only when a batch was abandoned, failure
\* only when a fatal phase aborted before any row was copied.
C10_ThreeOutcomesAsStated ==
    /\ report.outcome = "SUCCESS" =>
         copiedRows = totalRows /\ report.verification = "match"
    /\ report.outcome = "PARTIAL" => batchesFailed >= 1
    /\ report.outcome = "FAILED" => totalInserted = 0

\* C10 amended: success is reported only when all rows were copied and the
\* counts matched; partial success only when fewer rows than totalRows were
\* copied, because a batch was abandoned or because the source returned an
\* empty page early; failure only when a fatal operation raised (DESCRIBE,
\* the row count, DROP, CREATE, a page fetch or the count of step 4), which
\* for the last two can be after rows were copied.
C10_ThreeOutcomes ==
    /\ report.outcome \in {"none", "SUCCESS", "PARTIAL", "FAILED"}
    /\ report.outcome = "none" <=> pc \notin {"exit0", "exit1"}
    /\ report.outcome = "SUCCESS" =>
         /\ pc = "exit0"
         /\ copiedRows = totalRows /\ report.verification = "match"
         /\ postgresCount = totalRows /\ batchesFailed = 0
    /\ report.outcome = "PARTIAL" =>
         /\ pc = "exit0"
         /\ copiedRows < totalRows /\ report.verification = "mismatch"
         /\ batchesFailed >= 1 \/ LastFetchEmpty
    /\ report.outcome = "FAILED" =>
         /\ pc = "exit1"
         /\ report.failedAt \in {"structure", "count", "drop", "create", "fetch", "verify"}
         /\ totalInserted > 0 => report.failedAt \in {"fetch", "verify"}

C10_Witness ==
    /\ report.outcome = "FAILED" /\ report.failedAt = "fetch"
    /\ totalInserted > 0 /\ tgtRows = totalInserted /\ batchesFailed = 0


\* C11: whenever the final report is reached the run is classified as success
\* exactly when copiedRows equals the totalRows counted in the analysis phase,
\* and as partial success exactly when copiedRows is less.
C11_ClassificationByCount ==
    pc = "exit0" =>
        /\ report.outcome \in {"SUCCESS", "PARTIAL"}
        /\ report.outcome = "SUCCESS" <=> copiedRows = totalRows
        /\ report.outcome = "PARTIAL" <=> copiedRows < totalRows

C11_Witness ==
    /\ pc = "exit0" /\ report.outcome = "SUCCESS"
    /\ copiedRows = totalRows /\ totalRows > 0
    /\ srcRows # totalRows

\* the transfer is between two pages or over
AtPageBoundary == transfer # "notcalled" /\ pc \in {"fetch", "verify", "exit0", "exit1"}

\* C12: every multiple of CHECKPOINT_INTERVAL that the cumulative rowsCopied
\* reaches or passes produces a checkpoint line, whatever the batch sizes,
\* abandoned batches and partial final batches, and no checkpoint line is
\* emitted when no multiple was crossed.
C12_CheckpointPerMultiple ==
    (AtPageBoundary /\ transfer # "raised") =>
        /\ \A k \in 1..(totalInserted \div CONFIG.CHECKPOINT_INTERVAL) :
             \E j \in 1..Len(checkpoints) :
                checkpoints[j] >= k * CONFIG.CHECKPOINT_INTERVAL
        /\ \A j \in 1..Len(checkpoints) :
             /\ checkpoints[j] > 0
             /\ j > 1 => (checkpoints[j] \div CONFIG.CHECKPOINT_INTERVAL)
                           > (checkpoints[j - 1] \div CONFIG.CHECKPOINT_INTERVAL)

\* C18: step 4 reports a match exactly when the source count and the target
\* count at verification time are equal, and changes neither table.
C18_MatchedIffCountsEqual ==
    pc = "exit0" =>
        /\ report.verification = "match" <=> srcRows = postgresCount
        /\ tgtRows = postgresCount

\* C20: a failed page fetch is fatal: it is the last fetch of the run (never
\* retried), copyTableDataStream raises instead of returning a count, the run
\* ends in the failure report with nothing further issued, and the batches
\* inserted before it stay in the target.
C20_FetchFailureIsFatal ==
    /\ \A k \in 1..Len(fetchLog) :
         fetchLog[k].n = NoValue =>
            /\ k = Len(fetchLog)
            /\ transfer = "raised" /\ pc = "exit1"
            /\ report.outcome = "FAILED" /\ report.failedAt = "fetch"
    /\ transfer = "raised" =>
         /\ fetchLog # <<>> /\ fetchLog[Len(fetchLog)].n = NoValue
         /\ copiedRows = NoValue /\ postgresCount = NoValue
         /\ ~Issued("COUNT")
         /\ tgtStmts[Len(tgtStmts)] = (IF \E b \in Batches : b.bindable
                                       THEN "INSERT" ELSE "CREATE")
         /\ \A b \in Batches : b.result # "pending"
         /\ tgtExists /\ tgtRows = SumInserted(batchLog)
         /\ totalInserted = SumInserted(batchLog)

C20_Witness ==
    /\ transfer = "raised" /\ pc = "exit1"
    /\ Len(fetchLog) = 2 /\ fetchLog[1].n > 0
    /\ tgtRows > 0 /\ tgtRows = totalInserted
    /\ batchesFailed = 1


\* C19: a failure of the size estimate never aborts or blocks the run:
\* getTableSize is fulfilled with 0 when its query throws or returns no row,
\* the run never fails at the size estimate, and once DESCRIBE and COUNT are
\* there too step 2 starts as it does after a successful estimate.
C19_SizeFailureNeverAborts ==
    /\ queries["size"] \in {"idle", "pending", "ok"}
    /\ report.failedAt # "size"
    /\ sizeFailed => queries["size"] = "ok" /\ tableSize = 0
    /\ queries["size"] = "ok" => tableSize \in {0, 1}
    /\ (\A q \in DOMAIN queries : queries[q] = "ok") => pc # "analyze" /\ Issued("DROP")

C19_Witness ==
    /\ sizeFailed /\ tableSize = 0
    /\ pc = "exit0" /\ report.outcome = "SUCCESS" /\ copiedRows > 0

\* ------------------------------------------------ claims on the unit calls
Returned(fn) == unit = [fn |-> fn, at |-> "returned"]

IsDigitString(s) == Len(s) >= 1 /\ \A k \in 1..Len(s) : s[k] \in Digits

\* C13: the statement built by createPostgreSQLTable has one PRIMARY KEY
\* clause naming exactly the columns flagged PRI in the description, all of
\* them in their original order, and no such clause when none is flagged.
C13_PrimaryKeyNamesAllFlagged ==
    createSQL # NoSQL =>
        LET pri == SelectSeq(cols, IsPRI) IN
        /\ Len(createSQL.pk) = Len(pri)
        /\ \A k \in 1..Len(pri) : createSQL.pk[k] = pri[k].Field

\* C14: createPostgreSQLTable is drop-and-recreate: whatever the target was
\* before, once DROP has succeeded there is no table, and after a successful
\* call the table exists with one definition per given column, in order,
\* and no rows; a second call with the same arguments leaves the table the
\* first call left.
C14_DropAndRecreate ==
    unit.fn = "createPostgreSQLTable" =>
        /\ unit.at = "create" => ~table.exists /\ table.rows = 0
        /\ unit.at = "returned" =>
             /\ calls >= 1
             /\ table.exists /\ table.rows = 0
             /\ Len(table.spec.defs) = Len(cols)
             /\ \A k \in 1..Len(cols) : table.spec.defs[k].Field = cols[k].Field
             /\ table.spec = createSQL
             /\ table = firstTable
        /\ unit.at = "raised" => calls < MaxCalls

C14_Witness ==
    /\ unit = [fn |-> "createPostgreSQLTable", at |-> "returned"]
    /\ calls = 2
    /\ Len(cols) = 2
    /\ table = firstTable /\ table.exists /\ table.rows = 0

\* C15: convertDataType checks the more specific patterns before the general
\* integer pattern: "tinyint(1)" gives BOOLEAN, plain "tinyint" gives INTEGER,
\* "bigint(n)" gives BIGINT and "smallint(n)" gives SMALLINT.
C15_SpecificBeforeGeneral ==
    Returned("convertDataType") =>
        LET type == ToLowerCase(mysqlType)
            width == Len(type) >= 3 /\ type[Len(type)] = ")"
                     /\ \E k \in 1..Len(type) :
                          /\ type[k] = "("
                          /\ IsDigitString(SubSeq(type, k + 1, Len(type) - 1))
        IN
        /\ type = <<"t","i","n","y","i","n","t","(","1",")">> => pgType = <<"B","O","O","L","E","A","N">>
        /\ type = <<"t","i","n","y","i","n","t">> => pgType = <<"I","N","T","E","G","E","R">>
        /\ (StartsAt(type, 1, <<"b","i","g","i","n","t","(">>) /\ width) => pgType = <<"B","I","G","I","N","T">>
        /\ (StartsAt(type, 1, <<"s","m","a","l","l","i","n","t","(">>) /\ width) => pgType = <<"S","M","A","L","L","I","N","T">>

Keywords ==
    { <<"i","n","t","(">>, <<"b","i","g","i","n","t">>, <<"s","m","a","l","l","i","n","t">>, <<"t","i","n","y","i","n","t">>, <<"v","a","r","c","h","a","r">>, <<"t","e","x","t">>,
      <<"d","e","c","i","m","a","l">>, <<"f","l","o","a","t">>, <<"d","o","u","b","l","e">>, <<"d","a","t","e","t","i","m","e">>, <<"t","i","m","e","s","t","a","m","p">>, <<"d","a","t","e">>,
      <<"t","i","m","e">>, <<"j","s","o","n">>, <<"e","n","u","m">> }

FixedTargets ==
    { <<"I","N","T","E","G","E","R">>, <<"B","I","G","I","N","T">>, <<"S","M","A","L","L","I","N","T">>, <<"B","O","O","L","E","A","N">>, <<"V","A","R","C","H","A","R","(","2","5","5",")">>,
      <<"T","E","X","T">>, <<"D","E","C","I","M","A","L">>, <<"R","E","A","L">>, <<"D","O","U","B","L","E"," ","P","R","E","C","I","S","I","O","N">>, <<"T","I","M","E","S","T","A","M","P">>,
      <<"D","A","T","E">>, <<"T","I","M","E">>, <<"J","S","O","N">>, <<"V","A","R","C","H","A","R","(","5","0",")">> }

\* "varchar(" digits ")" and nothing else
IsSizedVarchar(type) ==
    /\ StartsAt(type, 1, <<"v","a","r","c","h","a","r","(">>)
    /\ type[Len(type)] = ")"
    /\ IsDigitString(SubSeq(type, 9, Len(type) - 1))

\* "decimal(" digits "," digits ")" and nothing else
IsSizedDecimal(type) ==
    /\ StartsAt(type, 1, <<"d","e","c","i","m","a","l","(">>)
    /\ type[Len(type)] = ")"
    /\ \E c \in 9..(Len(type) - 1) :
         /\ type[c] = ","
         /\ IsDigitString(SubSeq(type, 9, c - 1))
         /\ IsDigitString(SubSeq(type, c + 1, Len(type) - 1))

\* C16: convertDataType is total and keeps declared sizes: "varchar(L)" gives
\* VARCHAR(L) and "decimal(p,s)" gives DECIMAL(p,s) with the same digits, a
\* varchar or decimal without extractable arguments gives VARCHAR(255) or
\* DECIMAL, and a type string matching no rule gives TEXT; every call returns
\* a target type.
C16_TotalAndKeepsSizes ==
    Returned("convertDataType") =>
        LET type == ToLowerCase(mysqlType) IN
        /\ IsSizedVarchar(type) =>
             pgType = <<"V","A","R","C","H","A","R">> \o SubSeq(type, 8, Len(type))
        /\ IsSizedDecimal(type) =>
             pgType = <<"D","E","C","I","M","A","L">> \o SubSeq(type, 8, Len(type))
        /\ type \in { <<"v","a","r","c","h","a","r">>, <<"v","a","r","c","h","a","r","(",")">>, <<"v","a","r","c","h","a","r","(","x",")">> } =>
             pgType = <<"V","A","R","C","H","A","R","(","2","5","5",")">>
        /\ type \in { <<"d","e","c","i","m","a","l">>, <<"d","e","c","i","m","a","l","(","1","0",")">> } => pgType = <<"D","E","C","I","M","A","L">>
        /\ (\A w \in Keywords : ~Includes(type, w)) => pgType = <<"T","E","X","T">>
        /\ \/ pgType \in FixedTargets
           \/ IsSizedVarchar(ToLowerCase(pgType))
           \/ IsSizedDecimal(ToLowerCase(pgType))

C16_Witness ==
    /\ Returned("convertDataType")
    /\ mysqlType = <<"v","a","r","c","h","a","r","(","6","4",")">>
    /\ pgType = <<"V","A","R","C","H","A","R","(","6","4",")">>

\* C17: convertDefaultValue gives no DEFAULT for an absent default,
\* CURRENT_TIMESTAMP for a current-time function, the same literal unquoted
\* for every numeric literal (not only 0 and 1), and the literal in single
\* quotes for every other literal.
C17_NumericDefaultsUnquoted ==
    (Returned("convertDefaultValue") /\ defaultValue.t \in {"null", "string"}) =>
        LET lower == IF defaultValue.t = "string"
                     THEN ToLowerCase(defaultValue.s) ELSE <<>>
            timeFn == lower \in { <<"c","u","r","r","e","n","t","_","t","i","m","e","s","t","a","m","p">>, <<"c","u","r","r","e","n","t","_","t","i","m","e","s","t","a","m","p","(",")">>,
                                  <<"n","o","w","(",")">> }
        IN
        IF defaultValue = Null THEN convertedDefault = Null
        ELSE IF timeFn THEN convertedDefault = Str(<<"C","U","R","R","E","N","T","_","T","I","M","E","S","T","A","M","P">>)
        ELSE IF IsDigitString(defaultValue.s) THEN convertedDefault = defaultValue
        ELSE IF lower = <<"n","u","l","l">> THEN TRUE
        ELSE convertedDefault = Str(<<"'">> \o defaultValue.s \o <<"'">>)


\* ------------------------------------------- claims on the transfer loop
RECURSIVE SumSizes(_)
SumSizes(bl) ==
    IF bl = <<>> THEN 0
    ELSE bl[Len(bl)].size + SumSizes(SubSeq(bl, 1, Len(bl) - 1))

RECURSIVE SumAbandoned(_)
SumAbandoned(bl) ==
    IF bl = <<>> THEN 0
    ELSE (IF bl[Len(bl)].result = "abandoned" THEN bl[Len(bl)].size ELSE 0)
         + SumAbandoned(SubSeq(bl, 1, Len(bl) - 1))

\* the INSERT statements of the attempts logged: an attempt whose values
\* cannot be bound fails before its statement is issued
RECURSIVE SumIssued(_)
SumIssued(bl) ==
    IF bl = <<>> THEN 0
    ELSE (IF bl[Len(bl)].bindable THEN bl[Len(bl)].attempts ELSE 0)
         + SumIssued(SubSeq(bl, 1, Len(bl) - 1))

InsertsIssued == Cardinality({k \in 1..Len(tgtStmts) : tgtStmts[k] = "INSERT"})

\* C21: a page fetch that returns zero rows while offset < totalRows ends the
\* transfer as end-of-data: it is the last fetch, the transfer returns the
\* rowsCopied accumulated so far without raising, and no insert follows.
C21_EmptyPageEndsTransfer ==
    \A k \in 1..Len(fetchLog) :
        fetchLog[k].n = 0 =>
            /\ k = Len(fetchLog)
            /\ fetchLog[k].offset < totalRows
            /\ offset = fetchLog[k].offset
            /\ transfer = "returned"
            /\ copiedRows = totalInserted
            /\ copiedRows = SumInserted(batchLog)
            /\ report.failedAt \in {"none", "verify"}
            /\ pc \in {"verify", "exit0", "exit1"}
            /\ tgtStmts[Len(tgtStmts)] = "COUNT"
            /\ InsertsIssued = SumIssued(batchLog)
            /\ \A b \in Batches : b.result # "pending"

C21_Witness ==
    /\ LastFetchEmpty /\ Len(fetchLog) = 2
    /\ transfer = "returned" /\ pc = "exit0"
    /\ copiedRows > 0 /\ copiedRows < totalRows
    /\ batchesFailed = 0

\* C22: the delay waited after the n-th failed attempt of a batch is n times
\* the base delay; a delay is waited only between two attempts of the same
\* batch, none after the MAX_RETRIES-th failed attempt and none after a success.
C22_LinearBackoff ==
    /\ \A b \in Batches :
         /\ \A n \in 1..Len(b.delays) : b.delays[n] = n * BaseDelayMs
         /\ Len(b.delays) = b.attempts - 1
         /\ Len(b.delays) <= CONFIG.MAX_RETRIES - 1
    /\ pc = "backoff" =>
         /\ batchLog[Len(batchLog)].result = "pending"
         /\ retries = batchLog[Len(batchLog)].attempts
         /\ retries < CONFIG.MAX_RETRIES
         /\ ~batchInserted
    /\ InsertsIssued = SumIssued(batchLog)

C22_Witness ==
    /\ batchLog # <<>>
    /\ LET b == batchLog[Len(batchLog)] IN
         /\ b.result = "abandoned"
         /\ b.attempts = 3
         /\ b.delays = <<BaseDelayMs, 2 * BaseDelayMs>>

\* operations outstanding on the source and on the target
Outstanding ==
    (IF pc = "fetch" THEN 1 ELSE 0)
    + (IF pc \in {"drop", "create", "insert", "verify"} THEN 1 ELSE 0)

\* C23: within a transfer at most one source or target operation is
\* outstanding: the page of a batch was fetched before the batch is inserted,
\* the batches of a page are attempted one after another in slice order, and
\* a page is fetched only when every batch of the pages before it has
\* succeeded or been abandoned.
C23_OneOperationAtATime ==
    /\ Outstanding <= 1
    /\ \A k \in 1..Len(batchLog) :
         /\ batchLog[k].result = "pending" => k = Len(batchLog)
         /\ \E p \in 1..Len(fetchLog) :
              /\ fetchLog[p].offset <= batchLog[k].first
              /\ batchLog[k].first < fetchLog[p].offset + fetchLog[p].n
         /\ k > 1 => batchLog[k].first
                        = batchLog[k - 1].first + batchLog[k - 1].size
    /\ (batchLog # <<>> /\ batchLog[Len(batchLog)].result = "pending")
          <=> pc \in {"insert", "backoff"}
    /\ pc = "fetch" =>
         /\ \A b \in Batches : b.result \in {"inserted", "abandoned"}
         /\ SumSizes(batchLog) = SumFetched(fetchLog)
         /\ offset = SumFetched(fetchLog)

C23_Witness ==
    /\ pc = "fetch" /\ Len(fetchLog) = 1
    /\ Len(batchLog) = 2
    /\ batchLog[1].result = "abandoned" /\ batchLog[2].result = "inserted"
    /\ offset = fetchLog[1].n

\* C26: nothing but the program's batch inserts writes to the target, so the
\* target holds exactly totalInserted rows in every state after CREATE TABLE
\* succeeded, and on normal return the count read by step 4 is the value the
\* transfer returned.
C26_TargetCountIsRowsCopied ==
    /\ Created => tgtExists /\ tgtRows = totalInserted
    /\ transfer = "returned" => copiedRows = tgtRows
    /\ postgresCount # NoValue => postgresCount = copiedRows

C26_Witness ==
    /\ pc = "exit0" /\ postgresCount = copiedRows
    /\ copiedRows > 0 /\ batchesFailed > 0
    /\ Len(fetchLog) >= 2

\* C27: with a source that does not change during the run no source row is
\* inserted twice: every page starts where the page before it ended, the
\* batches partition the fetched rows in order, a batch is executed again
\* only after a failed attempt and never after it succeeded, and the target
\* never holds more rows than were fetched.
C27_NoRowInsertedTwice ==
    srcChanges = 0 =>
        /\ \A k \in 1..Len(fetchLog) :
             /\ k = 1 => fetchLog[k].offset = 0
             /\ k > 1 => fetchLog[k].offset
                            = fetchLog[k - 1].offset + fetchLog[k - 1].n
        /\ \A j, k \in 1..Len(batchLog) :
             j < k => batchLog[j].first + batchLog[j].size <= batchLog[k].first
        /\ \A k \in 1..Len(batchLog) : batchLog[k].size >= 1
        /\ pc \in {"fetch", "verify", "exit0"} =>
             SumSizes(batchLog) = SumFetched(fetchLog)
        /\ InsertsIssued = SumIssued(batchLog)
        /\ \A b \in Batches : b.result = "inserted" => Len(b.delays) = b.attempts - 1
        /\ Created =>
             /\ tgtRows = SumInserted(batchLog)
             /\ tgtRows <= SumFetched(fetchLog) /\ tgtRows <= srcRows

C27_Witness ==
    /\ srcChanges = 0 /\ pc = "exit0"
    /\ Len(fetchLog) >= 2 /\ Len(batchLog) >= 3
    /\ \E k \in 1..Len(batchLog) :
         batchLog[k].attempts > 1 /\ batchLog[k].result = "inserted"
    /\ tgtRows = srcRows

\* C28: the offset advances by the rows fetched whether or not their batches
\* succeeded, so an abandoned batch is never fetched again, and on normal
\* return totalRows - rowsCopied is the size of the abandoned batches plus
\* the rows never fetched because a page came back empty.
C28_ShortfallAccounted ==
    /\ transfer # "notcalled" /\ pc \in {"fetch", "verify", "exit0", "exit1"} =>
         offset = SumFetched(fetchLog)
    /\ \A j, k \in 1..Len(fetchLog) :
         j < k => fetchLog[j].offset + fetchLog[j].n <= fetchLog[k].offset
    /\ \A k \in 1..Len(batchLog) :
         (batchLog[k].result = "abandoned" /\ pc = "fetch") =>
            batchLog[k].first + batchLog[k].size <= offset
    /\ transfer = "returned" =>
         /\ offset <= totalRows
         /\ offset < totalRows => LastFetchEmpty
         /\ totalRows - copiedRows
              = SumAbandoned(batchLog) + (totalRows - SumFetched(fetchLog))

C28_Witness ==
    /\ transfer = "returned" /\ LastFetchEmpty
    /\ SumAbandoned(batchLog) > 0
    /\ totalRows - SumFetched(fetchLog) > 0
    /\ copiedRows > 0


\* C24: the ETA of a progress line is the remaining rows divided by the
\* current throughput, and a throughput of zero (also one that rounds to 0
\* rows/sec while rows were copied) gives an ETA of exactly zero, never a
\* division by zero or an infinite or undefined value.
C24_EtaNeverDividesByZero ==
    Returned("progress") =>
        LET remaining == progressArgs.totalRows - progressArgs.totalInserted IN
        /\ progressLine.eta.t = "number"
        /\ progressLine.speed = 0 => progressLine.eta = Num(0)
        /\ progressLine.speed > 0 =>
             progressLine.eta = Num(Round(remaining, progressLine.speed))

\* a value of the batch cannot be bound
HasInvalidDate ==
    \E j \in 1..Len(batch) : \E f \in DOMAIN batch[j] : batch[j][f].t = "InvalidDate"

\* C25: the column sequence is fixed once per run: the list given to
\* createPostgreSQLTable orders the columns of CREATE TABLE, the column list
\* of every INSERT that is built (none is when a value cannot be bound), and
\* the binding of the values, $1..$n in column order row after row.
C25_OneColumnOrder ==
    /\ batch # <<>> => (insertStmt = Thrown <=> HasInvalidDate)
    /\ (insertStmt # NoStmt /\ insertStmt # Thrown) =>
        LET n == Len(cols) IN
        /\ Len(createSQL.defs) = n
        /\ Len(insertStmt.columnNames) = n
        /\ \A k \in 1..n :
             /\ createSQL.defs[k].Field = cols[k].Field
             /\ insertStmt.columnNames[k] = createSQL.defs[k].Field
        /\ Len(insertStmt.placeholders) = Len(batch)
        /\ Len(insertStmt.values) = n * Len(batch)
        /\ \A j \in 1..Len(batch) :
             /\ Len(insertStmt.placeholders[j]) = n
             /\ \A k \in 1..n :
                  LET p == insertStmt.placeholders[j][k]
                      v == insertStmt.values[p]
                  IN /\ p = (j - 1) * n + k
                     /\ v.row = j
                     /\ v.field = insertStmt.columnNames[k]
                     /\ v.t = IF batch[j][cols[k].Field].t = "Date"
                              THEN "isoString" ELSE "value"

C25_Witness ==
    /\ insertStmt # NoStmt
    /\ Len(cols) = 2 /\ Len(batch) = 2
    /\ insertStmt.columnNames = <<"created_at", "id">>
    /\ insertStmt.placeholders = << <<1, 2>>, <<3, 4>> >>
    /\ insertStmt.values[3].t = "isoString"

====
